---- MODULE Spec2Model ----
(***************************************************************************)
(* Model of EnhancedWebTestingAutomation (src/main.py): the session loop   *)
(* run_enhanced_test, the termination policy should_continue_testing, the  *)
(* oracle client call_gemini_api_robust, the response interpreter          *)
(* parse_ai_response, the page fingerprint get_page_state_hash and         *)
(* cleanup.  One object is constructed (Init), the browser may be acquired *)
(* (SetupSelenium) and run_enhanced_test may be called several times.      *)
(***************************************************************************)
EXTENDS Integers, Sequences, FiniteSets, TLC

\* ------------------------------------------------------------------ bounds
\* largest max_iterations argument passed to run_enhanced_test
MaxIter == 4
\* number of run_enhanced_test calls made on the one object
MaxRuns == 2
\* direct calls of execute_javascript_enhanced made by SpecPolicy
MaxActions == 4
\* largest stagnation counter SpecPolicy lets a call start from
MaxSame == 3
\* longest conversation handed to the oracle client in a direct call
MaxCtx == 4
MaxField == 2
\* largest duration hint, in absolute value, given to the wait branch directly
MaxHint == 12

\* ------------------------------------------------------- program constants
\* self.max_same_state_count
max_same_state_count == 2
\* "for attempt in range(3)" of the navigation retry
NavAttempts == 3
\* "elapsed_time > 300"
TimeLimit == 300
\* "total_actions >= 3"
MinActions == 3
\* "failure_rate > 0.7", kept as the fraction FailNum / FailDen
FailNum == 7
FailDen == 10
\* default max_retries of call_gemini_api_robust
DefaultRetries == 3
\* max_retries of the final-analysis call
FinalRetries == 1
\* messages[-2:]
WindowSize == 2

\* --------------------------------------------------------------- the inputs
\* max_iterations arguments
IterArgs == 0..MaxIter
\* readings of time.time() - self.start_time at a policy evaluation: at the
\* limit (as is every earlier reading for the policy) and past it
Times == {TimeLimit, TimeLimit + 1}

\* what the browser shows when get_page_state_hash looks at it.
\* readable: "all" every read works, "basic" only current_url and title work,
\* "none" current_url or title raises.
Urls == 1..2
Titles == 1..1
Lengths == 1..1
Counts == 1..1
ReadyStates == 1..1
Readable == {"all", "basic", "none"}
PageObs == [url : Urls, title : Titles, content_length : Lengths,
            counts : Counts, ready : ReadyStates, readable : Readable]
\* the pages a session is run against
SessionObs == {o \in PageObs : o.readable # "basic"}

\* the observations get_page_state_hash is called on directly: the page
\* source length, the element counts and the ready state vary as well
HashObs == [url : Urls, title : Titles, content_length : 1..MaxField,
            counts : 1..MaxField, ready : 1..MaxField, readable : Readable]

\* the fingerprint that leaves the page source length out
GetPageStateHash_NoLength(obs, stamp) ==
    IF obs.readable = "none" THEN <<3, stamp>>
    ELSE IF obs.readable = "basic" THEN <<2, obs.url, obs.title>>
    ELSE <<1, obs.url, obs.title, 0, obs.counts, obs.ready>>

\* the fingerprint with a fixed value in place of the timestamp
GetPageStateHash_Sentinel(obs, stamp) ==
    IF obs.readable = "none" THEN <<3, 0>>
    ELSE IF obs.readable = "basic" THEN <<2, obs.url, obs.title>>
    ELSE <<1, obs.url, obs.title, obs.content_length, obs.counts, obs.ready>>

\* get_page_state_hash: md5 of the joined fields (md5 taken as injective on
\* the joined string), md5 of url|title when a content read raises, and
\* str(time.time()) when url or title raises; stamp stands for the reading of
\* the clock.
GetPageStateHash(obs, stamp) ==
    IF obs.readable = "none" THEN <<3, stamp>>
    ELSE IF obs.readable = "basic" THEN <<2, obs.url, obs.title>>
    ELSE <<1, obs.url, obs.title, obs.content_length, obs.counts, obs.ready>>

\* self.last_page_hash = None
NoHash == <<0>>

\* time.time() at a later call: a reading that differs from the one a stored
\* timestamp hash was made of (two readings suffice to tell them apart)
FreshStamp(stored) == IF stored = <<3, 0>> THEN 1 ELSE 0

\* ------------------------------------------------------ termination policy
\* the failure-rate test with a minimum sample of two actions
FailureRateHigh_Min2(succ, fail) ==
    LET total_actions == succ + fail
    IN  /\ total_actions > 0
        /\ fail * FailDen > FailNum * total_actions
        /\ total_actions >= MinActions - 1

FailureRateHigh(succ, fail) ==
    LET total_actions == succ + fail
    IN  /\ total_actions > 0
        /\ fail * FailDen > FailNum * total_actions
        /\ total_actions >= MinActions

\* the policy with the iteration limit tested after the stagnation test
sct_CapAfterStagnation(hash, iter, maxit, last, count, succ, fail, el) ==
    LET c == IF hash = last THEN count + 1 ELSE 0
        l == IF hash = last THEN last ELSE hash
    IN  IF c >= max_same_state_count
        THEN [ok |-> FALSE, reason |-> "Stagnation", last |-> l, count |-> c]
        ELSE IF iter >= maxit
        THEN [ok |-> FALSE, reason |-> "IterationCapReached",
              last |-> l, count |-> c]
        ELSE IF FailureRateHigh(succ, fail)
        THEN [ok |-> FALSE, reason |-> "HighFailureRate", last |-> l, count |-> c]
        ELSE IF el > TimeLimit
        THEN [ok |-> FALSE, reason |-> "TimeCapReached", last |-> l, count |-> c]
        ELSE [ok |-> TRUE, reason |-> "Continue", last |-> l, count |-> c]

\* the policy with the clock tested right after the iteration limit
sct_TimeFirst(hash, iter, maxit, last, count, succ, fail, el) ==
    IF iter >= maxit
    THEN [ok |-> FALSE, reason |-> "IterationCapReached",
          last |-> last, count |-> count]
    ELSE LET c == IF hash = last THEN count + 1 ELSE 0
             l == IF hash = last THEN last ELSE hash
         IN  IF el > TimeLimit
             THEN [ok |-> FALSE, reason |-> "TimeCapReached", last |-> l, count |-> c]
             ELSE IF c >= max_same_state_count
             THEN [ok |-> FALSE, reason |-> "Stagnation", last |-> l, count |-> c]
             ELSE IF FailureRateHigh(succ, fail)
             THEN [ok |-> FALSE, reason |-> "HighFailureRate", last |-> l, count |-> c]
             ELSE [ok |-> TRUE, reason |-> "Continue", last |-> l, count |-> c]

\* the policy with a counter that restarts at one on a new fingerprint
sct_CountFromOne(hash, iter, maxit, last, count, succ, fail, el) ==
    IF iter >= maxit
    THEN [ok |-> FALSE, reason |-> "IterationCapReached",
          last |-> last, count |-> count]
    ELSE LET c == IF hash = last THEN count + 1 ELSE 1
             l == IF hash = last THEN last ELSE hash
         IN  IF c >= max_same_state_count
             THEN [ok |-> FALSE, reason |-> "Stagnation", last |-> l, count |-> c]
             ELSE IF FailureRateHigh(succ, fail)
             THEN [ok |-> FALSE, reason |-> "HighFailureRate", last |-> l, count |-> c]
             ELSE IF el > TimeLimit
             THEN [ok |-> FALSE, reason |-> "TimeCapReached", last |-> l, count |-> c]
             ELSE [ok |-> TRUE, reason |-> "Continue", last |-> l, count |-> c]

\* the policy that tests the failure rate before it looks at the fingerprint
sct_FailureBeforeUpdate(hash, iter, maxit, last, count, succ, fail, el) ==
    IF iter >= maxit
    THEN [ok |-> FALSE, reason |-> "IterationCapReached",
          last |-> last, count |-> count]
    ELSE IF FailureRateHigh(succ, fail)
    THEN [ok |-> FALSE, reason |-> "HighFailureRate",
          last |-> last, count |-> count]
    ELSE LET c == IF hash = last THEN count + 1 ELSE 0
             l == IF hash = last THEN last ELSE hash
         IN  IF c >= max_same_state_count
             THEN [ok |-> FALSE, reason |-> "Stagnation", last |-> l, count |-> c]
             ELSE IF el > TimeLimit
             THEN [ok |-> FALSE, reason |-> "TimeCapReached", last |-> l, count |-> c]
             ELSE [ok |-> TRUE, reason |-> "Continue", last |-> l, count |-> c]

\* the policy that stops only above the stagnation threshold
sct_ThresholdExclusive(hash, iter, maxit, last, count, succ, fail, el) ==
    IF iter >= maxit
    THEN [ok |-> FALSE, reason |-> "IterationCapReached",
          last |-> last, count |-> count]
    ELSE LET c == IF hash = last THEN count + 1 ELSE 0
             l == IF hash = last THEN last ELSE hash
         IN  IF c > max_same_state_count
             THEN [ok |-> FALSE, reason |-> "Stagnation", last |-> l, count |-> c]
             ELSE IF FailureRateHigh(succ, fail)
             THEN [ok |-> FALSE, reason |-> "HighFailureRate", last |-> l, count |-> c]
             ELSE IF el > TimeLimit
             THEN [ok |-> FALSE, reason |-> "TimeCapReached", last |-> l, count |-> c]
             ELSE [ok |-> TRUE, reason |-> "Continue", last |-> l, count |-> c]

\* the policy whose cap lets the pass numbered max_iterations through
sct_CapExclusive(hash, iter, maxit, last, count, succ, fail, el) ==
    IF iter > maxit
    THEN [ok |-> FALSE, reason |-> "IterationCapReached",
          last |-> last, count |-> count]
    ELSE LET c == IF hash = last THEN count + 1 ELSE 0
             l == IF hash = last THEN last ELSE hash
         IN  IF c >= max_same_state_count
             THEN [ok |-> FALSE, reason |-> "Stagnation", last |-> l, count |-> c]
             ELSE IF FailureRateHigh(succ, fail)
             THEN [ok |-> FALSE, reason |-> "HighFailureRate", last |-> l, count |-> c]
             ELSE IF el > TimeLimit
             THEN [ok |-> FALSE, reason |-> "TimeCapReached", last |-> l, count |-> c]
             ELSE [ok |-> TRUE, reason |-> "Continue", last |-> l, count |-> c]

\* the policy that resets the counter without storing the new fingerprint
sct_KeepHash(hash, iter, maxit, last, count, succ, fail, el) ==
    IF iter >= maxit
    THEN [ok |-> FALSE, reason |-> "IterationCapReached",
          last |-> last, count |-> count]
    ELSE LET c == IF hash = last THEN count + 1 ELSE 0
             l == last
         IN  IF c >= max_same_state_count
             THEN [ok |-> FALSE, reason |-> "Stagnation", last |-> l, count |-> c]
             ELSE IF FailureRateHigh(succ, fail)
             THEN [ok |-> FALSE, reason |-> "HighFailureRate", last |-> l, count |-> c]
             ELSE IF el > TimeLimit
             THEN [ok |-> FALSE, reason |-> "TimeCapReached", last |-> l, count |-> c]
             ELSE [ok |-> TRUE, reason |-> "Continue", last |-> l, count |-> c]

\* should_continue_testing(current_state_hash, iteration, max_iterations) on
\* an object with fields last / count / succ / fail, the clock reading
\* elapsed seconds after start_time.  Returns the decision and the two fields
\* it may write.
should_continue_testing(hash, iter, maxit, last, count, succ, fail, el) ==
    IF iter >= maxit
    THEN [ok |-> FALSE, reason |-> "IterationCapReached",
          last |-> last, count |-> count]
    ELSE LET c == IF hash = last THEN count + 1 ELSE 0
             l == IF hash = last THEN last ELSE hash
         IN  IF c >= max_same_state_count
             THEN [ok |-> FALSE, reason |-> "Stagnation", last |-> l, count |-> c]
             ELSE IF FailureRateHigh(succ, fail)
             THEN [ok |-> FALSE, reason |-> "HighFailureRate", last |-> l, count |-> c]
             ELSE IF el > TimeLimit
             THEN [ok |-> FALSE, reason |-> "TimeCapReached", last |-> l, count |-> c]
             ELSE [ok |-> TRUE, reason |-> "Continue", last |-> l, count |-> c]

\* ---------------------------------------------------------- oracle client
\* One attempt of self.model.generate_content: a text that is not empty
\* once stripped, a text of whitespace only (blank), an empty response, or
\* an exception whose lowercased message contains "quota"/"limit" (quota)
\* and/or "503"/"unavailable"/"429" (transient).
Attempts ==
    {[kind |-> "text", quota |-> FALSE, transient |-> FALSE],
     [kind |-> "blank", quota |-> FALSE, transient |-> FALSE],
     [kind |-> "empty", quota |-> FALSE, transient |-> FALSE]}
    \cup [kind : {"error"}, quota : BOOLEAN, transient : BOOLEAN]

\* the branch of the except clause an error takes
ErrorClass(a) ==
    IF a.quota THEN "quota"
    ELSE IF a.transient THEN "transient"
    ELSE "other"

\* the sleeps with a transient delay that is not scaled by the attempt
Backoff_Flat(a, attempt) ==
    IF ErrorClass(a) = "quota" THEN 5 * (attempt + 1)
    ELSE IF ErrorClass(a) = "transient" THEN 3
    ELSE 2

\* the sleeps with a default delay scaled by the attempt
Backoff_OtherScaled(a, attempt) ==
    IF ErrorClass(a) = "quota" THEN 5 * (attempt + 1)
    ELSE IF ErrorClass(a) = "transient" THEN 3 * (attempt + 1)
    ELSE 2 * (attempt + 1)

\* time.sleep argument of the branch, attempt counted from 0
Backoff(a, attempt) ==
    IF ErrorClass(a) = "quota" THEN 5 * (attempt + 1)
    ELSE IF ErrorClass(a) = "transient" THEN 3 * (attempt + 1)
    ELSE 2

\* the loop "for attempt in range(max_retries)" from attempt on; outs[i] is
\* what the i-th generate call does.  kind: "text" a stripped text is
\* returned, "empty" the empty string is returned (the final return "" or
\* the strip of a blank text), "raise" the error is re-raised.
RECURSIVE GeminiLoop(_, _, _, _)
GeminiLoop(outs, max_retries, attempt, sleeps) ==
    IF attempt >= max_retries
    THEN [kind |-> "empty", err |-> "none", calls |-> attempt, sleeps |-> sleeps]
    ELSE LET a == outs[attempt + 1]
         IN  IF a.kind = "text"
             THEN [kind |-> "text", err |-> "none", calls |-> attempt + 1,
                   sleeps |-> sleeps]
             ELSE IF a.kind = "blank"
             THEN [kind |-> "empty", err |-> "none", calls |-> attempt + 1,
                   sleeps |-> sleeps]
             ELSE IF a.kind = "empty"
             THEN GeminiLoop(outs, max_retries, attempt + 1, sleeps)
             ELSE IF attempt < max_retries - 1
             THEN GeminiLoop(outs, max_retries, attempt + 1,
                             Append(sleeps, Backoff(a, attempt)))
             ELSE [kind |-> "raise", err |-> ErrorClass(a),
                   calls |-> attempt + 1, sleeps |-> sleeps]

\* the client that returns "" instead of re-raising the last error
call_gemini_api_robust_Swallow(outs, max_retries) ==
    LET r == GeminiLoop(outs, max_retries, 0, <<>>)
    IN  IF r.kind = "raise"
        THEN [kind |-> "empty", err |-> "none", calls |-> r.calls,
              sleeps |-> r.sleeps]
        ELSE r

\* the client that calls generate max_retries times whatever it returns
call_gemini_api_robust_NoStop(outs, max_retries) ==
    [GeminiLoop(outs, max_retries, 0, <<>>) EXCEPT !.calls = max_retries]

call_gemini_api_robust(outs, max_retries) ==
    GeminiLoop(outs, max_retries, 0, <<>>)

\* the window taken from the front of the conversation
RecentMessages_Oldest(msgs) ==
    IF Len(msgs) > WindowSize
    THEN SubSeq(msgs, 1, WindowSize)
    ELSE msgs

\* the window of the last three turns
RecentMessages_Three(msgs) ==
    IF Len(msgs) > WindowSize + 1
    THEN SubSeq(msgs, Len(msgs) - WindowSize, Len(msgs))
    ELSE msgs

\* recent_messages = messages[-2:] if len(messages) > 2 else messages
RecentMessages(msgs) ==
    IF Len(msgs) > WindowSize
    THEN SubSeq(msgs, Len(msgs) - WindowSize + 1, Len(msgs))
    ELSE msgs

\* "for msg in recent_messages: if msg['role'] == 'user'": the content list
\* handed to generate_content, one entry per user turn of the window
IsUserTurn(m) == m.role = "user"
GeminiContent(msgs) == SelectSeq(RecentMessages(msgs), IsUserTurn)

\* ------------------------------------------------------------------ wait
\* wait_for_condition(condition, duration).  condition is "page_load",
\* "element_change" or anything else; check is what the browser does during
\* the readiness check (self.wait.until for page_load, the two find_elements
\* counts for element_change): "ok" ready / few changes, "changed" ready /
\* more than 5 elements of difference, "timeout" TimeoutException, "raise"
\* another exception; sleep_ok is whether time.sleep accepts the duration.
Conditions == {"page_load", "element_change", "other"}
Checks == {"ok", "changed", "timeout", "raise"}
WaitWarning == [kind |-> "return", success |-> TRUE, msg |-> "warning"]

\* the wait that reports a failed readiness check as a failure
wait_for_condition_Strict(condition, check, sleep_ok) ==
    IF condition \in {"page_load", "element_change"}
       /\ check \in {"timeout", "raise"}
    THEN [kind |-> "return", success |-> FALSE, msg |-> "warning"]
    ELSE IF ~sleep_ok THEN WaitWarning
    ELSE [kind |-> "return", success |-> TRUE, msg |-> "waited"]

wait_for_condition(condition, check, sleep_ok) ==
    IF condition = "page_load"
    THEN IF check \in {"timeout", "raise"} \/ ~sleep_ok
         THEN WaitWarning
         ELSE [kind |-> "return", success |-> TRUE, msg |-> "loaded"]
    ELSE IF condition = "element_change"
    THEN IF check \in {"timeout", "raise"} \/ ~sleep_ok
         THEN WaitWarning
         ELSE IF check = "changed"
         THEN [kind |-> "return", success |-> TRUE, msg |-> "changed"]
         ELSE [kind |-> "return", success |-> TRUE, msg |-> "minimal"]
    ELSE IF ~sleep_ok
         THEN WaitWarning
         ELSE [kind |-> "return", success |-> TRUE, msg |-> "waited"]

\* ------------------------------------------------------ response interpreter
\* A parsed action record: the fields the loop reads.  javascript is "" when
\* the field is missing or empty; dur_kind says whether "duration" is
\* missing, an integer (dur_val) or a value max/min cannot compare;
\* analysis_report is "absent" when the key is missing, "given" when the
\* oracle's JSON supplied it, "text" when it is response_text itself,
\* "wrapped" when it is the fallback sentence around the whole response_text
\* and "prefix500" when it is that sentence around response_text[:500] of a
\* longer text.
\* response_data.get('javascript', ''): missing or falsy (""), a text or
\* another value that can be sliced ("code"), a truthy value that cannot (a
\* number, true, an object: "unsliceable")
JsFields == {"", "code", "unsliceable"}
DurHints == {0, 5, 11}
NoData == [action |-> "none", javascript |-> "", dur_kind |-> "missing", dur_val |-> 0,
           analysis_report |-> "absent"]
EndWith(r) == [action |-> "end", javascript |-> "", dur_kind |-> "missing", dur_val |-> 0,
               analysis_report |-> r]
EndData == EndWith("absent")
JsData(js) == [action |-> "javascript", javascript |-> js, dur_kind |-> "missing", dur_val |-> 0,
               analysis_report |-> "absent"]
WaitData(k, v) == [action |-> "wait", javascript |-> "", dur_kind |-> k, dur_val |-> v,
                   analysis_report |-> "absent"]
OtherData == [action |-> "other", javascript |-> "", dur_kind |-> "missing", dur_val |-> 0,
              analysis_report |-> "absent"]
ActionData ==
    {EndData, EndWith("given"), OtherData} \cup {JsData(js) : js \in JsFields}
    \cup {WaitData("missing", 0), WaitData("bad", 0)}
    \cup {WaitData("int", v) : v \in DurHints}

\* A non-empty oracle text, by what parse_ai_response looks at.  json is the
\* structured action the text holds (the object with an "action" key that
\* json.loads would accept), NoData when it holds none; form says how it is
\* written: "fenced" inside a ``` block, "bare" as an unfenced object without
\* braces inside it, "nested" as an unfenced object with a brace inside a
\* value after the "action" key, which the third pattern does not match and
\* the fourth cuts at the first closing brace.  The flags say whether the
\* lowercased text contains one of the end_keywords, the word 'achieved',
\* one of click/fill/submit, one of "click(" / "fill(" / "type", and one of
\* wait/loading; size is "long" for a text of more than 500 characters.
Texts ==
    {t \in [json : ActionData \cup {NoData},
            form : {"fenced", "bare", "nested"},
            end_kw : BOOLEAN, achieved_kw : BOOLEAN,
            interact_kw : BOOLEAN, call_kw : BOOLEAN, wait_kw : BOOLEAN,
            size : {"short", "long"}] :
        t.json = NoData => t.form = "bare"}
\* the empty string
EmptyText == [json |-> NoData, form |-> "bare", end_kw |-> FALSE,
              achieved_kw |-> FALSE, interact_kw |-> FALSE,
              call_kw |-> FALSE, wait_kw |-> FALSE, size |-> "empty"]

\* "for pattern in json_patterns: ... json.loads(match.strip())": the first
\* match that loads and has an "action" key, NoData when there is none
ExtractJson(t) ==
    IF t.json # NoData /\ t.form # "nested" THEN t.json ELSE NoData

\* f"Could not parse response. Raw response: {response_text[:500]}..."
RawResponse(t) == IF t.size = "long" THEN "prefix500" ELSE "wrapped"

\* the interpreter whose last resort is an unknown action
parse_ai_response_Unknown(t) ==
    IF t.size = "empty" THEN EndData
    ELSE IF ExtractJson(t) # NoData THEN ExtractJson(t)
    ELSE IF t.end_kw THEN EndWith("text")
    ELSE IF t.interact_kw /\ t.call_kw THEN JsData("code")
    ELSE IF t.wait_kw THEN WaitData("int", 3)
    ELSE OtherData

\* parse_ai_response with the interaction test placed before the end
\* keywords
parse_ai_response_InteractFirst(t) ==
    IF t.size = "empty" THEN EndData
    ELSE IF ExtractJson(t) # NoData THEN ExtractJson(t)
    ELSE IF t.interact_kw /\ t.call_kw THEN JsData("code")
    ELSE IF t.end_kw THEN EndWith("text")
    ELSE IF t.wait_kw THEN WaitData("int", 3)
    ELSE EndWith(RawResponse(t))

\* parse_ai_response with the wait test placed before the interaction test
parse_ai_response_WaitFirst(t) ==
    IF t.size = "empty" THEN EndData
    ELSE IF ExtractJson(t) # NoData THEN ExtractJson(t)
    ELSE IF t.end_kw THEN EndWith("text")
    ELSE IF t.wait_kw THEN WaitData("int", 3)
    ELSE IF t.interact_kw /\ t.call_kw THEN JsData("code")
    ELSE EndWith(RawResponse(t))

parse_ai_response(t) ==
    IF t.size = "empty" THEN EndData
    ELSE IF ExtractJson(t) # NoData THEN ExtractJson(t)
    ELSE IF t.end_kw THEN EndWith("text")
    ELSE IF t.interact_kw /\ t.call_kw THEN JsData("code")
    ELSE IF t.wait_kw THEN WaitData("int", 3)
    ELSE EndWith(RawResponse(t))

\* what call_gemini_api_robust(messages) does in the loop, over every
\* sequence of attempts
LoopOutcomes ==
    {call_gemini_api_robust(outs, DefaultRetries) :
        outs \in [1..DefaultRetries -> Attempts]}

\* what the final analysis call, with max_retries=1, does
FinalOutcomes ==
    {call_gemini_api_robust(outs, FinalRetries) :
        outs \in [1..FinalRetries -> Attempts]}

\* what parse_ai_response returns for the non-empty texts
ParsedTexts == {parse_ai_response(t) : t \in Texts}

\* ------------------------------------------------------------------- state
VARIABLES
    driver,                         \* self.driver is not None
    last_page_hash,                 \* self.last_page_hash
    consecutive_same_state_count,   \* self.consecutive_same_state_count
    successful_actions,             \* self.successful_actions
    failed_actions,                 \* self.failed_actions
    executions,                     \* execute_javascript_enhanced calls made on the object
    generate_calls,                 \* model.generate_content calls made by the latest call
    captured,                       \* what the current pass took after its script or wait
    sent,                           \* content list of the latest oracle request of the loop
    elapsed,                        \* time.time() - self.start_time, last reading
    pc,                             \* position in run_enhanced_test
    runs,                           \* run_enhanced_test calls started so far
    max_iterations,                 \* argument of the latest call
    attempt,                        \* navigation attempt, from 0
    iteration,                      \* local iteration
    goal_achieved,                  \* local goal_achieved
    continue_reason,                \* local continue_reason ("unset": not bound)
    current_state_hash,             \* local current_state_hash
    messages,                       \* local messages
    response_data,                  \* local response_data, from parse to dispatch
    exc,                            \* the exception raised in the current pass
    report,                         \* what the latest call returned
    quit_calls,                     \* driver.quit() calls made by the latest call
    acquired,                       \* the latest call started with a browser
    seen_hash,                      \* fingerprint seen by the last evaluation past the cap check
    streak,                         \* consecutive such evaluations that saw seen_hash
    call_args,                      \* arguments of the latest direct method call
    call_result                     \* what that call returned or raised

vars == <<driver, last_page_hash, consecutive_same_state_count,
          successful_actions, failed_actions, executions, generate_calls,
          captured, sent, elapsed, pc, runs, max_iterations, attempt, iteration, goal_achieved, continue_reason,
          current_state_hash, messages, response_data, exc, report,
          quit_calls, acquired, seen_hash, streak, call_args, call_result>>

\* after the action of a pass: shot, take_screenshot_optimized was called;
\* page, the read of the page made for the feedback: "info" for
\* get_enhanced_page_info, "location" for driver.current_url alone
NoCapture == [shot |-> FALSE, page |-> "none"]
Capture(p) == [shot |-> TRUE, page |-> p]

\* the record of a method called directly, outside run_enhanced_test
unitVars == <<call_args, call_result>>
NoCall == [fn |-> "none"]

\* the fields of the object that only should_continue_testing writes
selfPolicy == <<last_page_hash, consecutive_same_state_count, seen_hash, streak>>
\* the fields that only execute_javascript_enhanced writes
selfCounters == <<successful_actions, failed_actions, executions>>
\* the locals of run_enhanced_test
locals == <<attempt, iteration, goal_achieved, continue_reason,
            current_state_hash, messages, response_data, exc>>

\* conversation turns: all have role 'user'; at is the pass that appended it
Turn(kind, at) == [role |-> "user", kind |-> kind, at |-> at]

\* what the caller gets: the status line of the report, the iteration count
\* it prints and the reason it quotes (the continue_reason of a COMPLETED
\* report, the exception of an error report).  "None": the function ended
\* without a return statement; "RAISED": an exception left the function.
Report(status, its, why) == [status |-> status, iterations |-> its, reason |-> why]
NoReport == Report("none", 0, "none")

\* __init__
Init ==
    /\ driver = FALSE
    /\ last_page_hash = NoHash
    /\ consecutive_same_state_count = 0
    /\ successful_actions = 0
    /\ failed_actions = 0
    /\ executions = 0
    /\ generate_calls = 0
    /\ captured = NoCapture
    /\ sent = <<>>
    /\ elapsed = 0
    /\ pc = "idle"
    /\ runs = 0
    /\ max_iterations = 0
    /\ attempt = 0
    /\ iteration = 0
    /\ goal_achieved = FALSE
    /\ continue_reason = "unset"
    /\ current_state_hash = NoHash
    /\ messages = <<>>
    /\ response_data = NoData
    /\ exc = "none"
    /\ report = NoReport
    /\ quit_calls = 0
    /\ acquired = FALSE
    /\ seen_hash = NoHash
    /\ streak = 0
    /\ call_args = NoCall
    /\ call_result = NoCall

\* the frame of run_enhanced_test: its locals before line 749 binds them and
\* after the call has returned
FrameGone ==
    /\ attempt' = 0
    /\ iteration' = 0
    /\ goal_achieved' = FALSE
    /\ continue_reason' = "unset"
    /\ current_state_hash' = NoHash
    /\ messages' = <<>>
    /\ response_data' = NoData
    /\ exc' = "none"

\* cleanup() without the quit: the reference is dropped, the browser is left
cleanup_NoQuit ==
    /\ quit_calls' = quit_calls
    /\ driver' = FALSE

\* cleanup() that quits the browser and keeps the reference
cleanup_KeepsReference ==
    /\ quit_calls' = IF driver THEN quit_calls + 1 ELSE quit_calls
    /\ driver' = driver

\* cleanup(): "if self.driver" close the windows and quit once (errors of
\* either are swallowed), then self.driver = None
cleanup ==
    /\ quit_calls' = IF driver THEN quit_calls + 1 ELSE quit_calls
    /\ driver' = FALSE

\* a return statement of run_enhanced_test, or an exception leaving it: the
\* finally clause runs cleanup and the caller gets r
Return(r) ==
    /\ report' = r
    /\ cleanup
    /\ FrameGone
    /\ pc' = "returned"

\* the outer "except Exception as e": the error report quotes e and reads
\* getattr(self.driver, 'current_url', 'unknown') if self.driver; when that
\* read raises, the browser's exception leaves run_enhanced_test.
OuterExcept(e) ==
    \E read \in {"ok", "raise"} :
        IF driver /\ read = "raise"
        THEN Return(Report("RAISED", iteration, "browser"))
        ELSE Return(Report("FAILED", iteration, e))

\* setup_selenium, called as main() does, once and before run_enhanced_test:
\* on success self.driver is a new browser; when webdriver.Chrome raises,
\* self.driver keeps its value.
SetupSelenium ==
    /\ UNCHANGED <<unitVars, generate_calls, captured, sent>>
    /\ pc = "idle"
    /\ \E ok \in BOOLEAN : driver' = (ok \/ driver)
    /\ UNCHANGED <<selfPolicy, selfCounters, elapsed, pc, runs, max_iterations,
                   locals, report, quit_calls, acquired>>

\* run_enhanced_test is called: self.start_time = time.time()
StartRun ==
    /\ UNCHANGED unitVars
    /\ pc \in {"idle", "returned"}
    /\ runs < MaxRuns
    /\ \E n \in IterArgs : max_iterations' = n
    /\ runs' = runs + 1
    /\ elapsed' = 0
    /\ generate_calls' = 0
    /\ captured' = NoCapture
    /\ sent' = <<>>
    /\ pc' = "navigate"
    /\ report' = NoReport
    /\ quit_calls' = 0
    /\ acquired' = driver
    /\ UNCHANGED <<driver, selfPolicy, selfCounters, locals>>

\* the navigation loop that goes on to the first observation after the
\* last failure
Navigate_GoesOn ==
    /\ UNCHANGED <<unitVars, generate_calls, captured, sent>>
    /\ pc = "navigate"
    /\ \E ok \in BOOLEAN :
         IF (driver /\ ok) \/ attempt = NavAttempts - 1
         THEN /\ pc' = "observe"
              /\ UNCHANGED <<driver, locals, report, quit_calls>>
         ELSE /\ attempt' = attempt + 1
              /\ UNCHANGED <<driver, pc, iteration, goal_achieved,
                             continue_reason, current_state_hash, messages,
                             response_data, exc, report, quit_calls>>
    /\ UNCHANGED <<selfPolicy, selfCounters, elapsed, runs, max_iterations,
                   acquired>>

\* one pass of "for attempt in range(3)": self.driver.get raises when there
\* is no driver (AttributeError) or when the browser fails; the third
\* failure returns the failure text.
Navigate ==
    /\ UNCHANGED <<unitVars, generate_calls, captured, sent>>
    /\ pc = "navigate"
    /\ \E ok \in BOOLEAN :
         IF driver /\ ok
         THEN /\ pc' = "observe"
              /\ UNCHANGED <<driver, locals, report, quit_calls>>
         ELSE IF attempt = NavAttempts - 1
         THEN Return(Report("NAV_FAILED", 0, "none"))
         ELSE /\ attempt' = attempt + 1
              /\ UNCHANGED <<driver, pc, iteration, goal_achieved,
                             continue_reason, current_state_hash, messages,
                             response_data, exc, report, quit_calls>>
    /\ UNCHANGED <<selfPolicy, selfCounters, elapsed, runs, max_iterations,
                   acquired>>

\* initial screenshot, get_enhanced_page_info and the first turn.
\* get_enhanced_page_info raises when its reads fail and the current_url read
\* of its own except clause fails too.
InitObserve ==
    /\ UNCHANGED <<unitVars, generate_calls, captured, sent>>
    /\ pc = "observe"
    /\ \E info \in {"ok", "raise"} :
         IF info = "ok"
         THEN /\ messages' = <<Turn("initial", 0)>>
              /\ pc' = "loop_head"
              /\ UNCHANGED <<driver, attempt, iteration, goal_achieved,
                             continue_reason, current_state_hash,
                             response_data, exc, report, quit_calls>>
         ELSE OuterExcept("browser")
    /\ UNCHANGED <<selfPolicy, selfCounters, elapsed, runs, max_iterations,
                   acquired>>

\* "while iteration < max_iterations and not goal_achieved": iteration += 1,
\* get_page_state_hash, should_continue_testing.
LoopHead ==
    /\ UNCHANGED <<unitVars, generate_calls, sent>>
    /\ pc = "loop_head"
    /\ captured' = NoCapture
    /\ IF iteration < max_iterations /\ ~goal_achieved
       THEN \E obs \in SessionObs, t \in Times :
              /\ t >= elapsed
              /\ LET it == iteration + 1
                     h == GetPageStateHash(obs, FreshStamp(last_page_hash))
                     d == should_continue_testing(h, it, max_iterations,
                              last_page_hash, consecutive_same_state_count,
                              successful_actions, failed_actions, t)
                 IN  /\ iteration' = it
                     /\ current_state_hash' = h
                     /\ elapsed' = t
                     /\ last_page_hash' = d.last
                     /\ consecutive_same_state_count' = d.count
                     /\ continue_reason' = d.reason
                     /\ exc' = "none"
                     /\ pc' = "decided"
                     /\ IF it >= max_iterations
                        THEN UNCHANGED <<seen_hash, streak>>
                        ELSE /\ seen_hash' = h
                             /\ streak' = IF h = seen_hash THEN streak + 1 ELSE 1
       ELSE /\ pc' = "after_loop"
            /\ UNCHANGED <<selfPolicy, elapsed, iteration, continue_reason,
                           current_state_hash, exc>>
    /\ UNCHANGED <<driver, selfCounters, runs, max_iterations, attempt,
                   goal_achieved, messages, response_data, report,
                   quit_calls, acquired>>

\* the loop without the break
Decide_NoBreak ==
    /\ UNCHANGED <<unitVars, generate_calls, captured, sent>>
    /\ pc = "decided"
    /\ pc' = "oracle"
    /\ UNCHANGED <<driver, selfPolicy, selfCounters, elapsed, runs,
                   max_iterations, locals, report, quit_calls, acquired>>

\* "if not should_continue: break"
Decide ==
    /\ UNCHANGED <<unitVars, generate_calls, captured, sent>>
    /\ pc = "decided"
    /\ pc' = IF continue_reason = "Continue" THEN "oracle" ELSE "after_loop"
    /\ UNCHANGED <<driver, selfPolicy, selfCounters, elapsed, runs,
                   max_iterations, locals, report, quit_calls, acquired>>

\* the oracle request whose empty response is answered with a turn
OracleCall_EmptyTurn ==
    /\ UNCHANGED <<unitVars, captured>>
    /\ pc = "oracle"
    /\ sent' = GeminiContent(messages)
    /\ \E r \in LoopOutcomes :
         /\ generate_calls' = generate_calls + r.calls
         /\ pc' = CASE r.kind = "text" -> "parse"
                    [] r.kind = "empty" -> "loop_head"
                    [] OTHER -> "inner_except"
         /\ exc' = IF r.kind = "raise" THEN r.err ELSE exc
         /\ messages' = IF r.kind = "empty"
                        THEN Append(messages, Turn("feedback", iteration))
                        ELSE messages
    /\ UNCHANGED <<driver, selfPolicy, selfCounters, elapsed, runs,
                   max_iterations, attempt, iteration, goal_achieved,
                   continue_reason, current_state_hash,
                   response_data, report, quit_calls, acquired>>

\* response_text = self.call_gemini_api_robust(messages); empty: continue
OracleCall ==
    /\ UNCHANGED <<unitVars, captured>>
    /\ pc = "oracle"
    /\ sent' = GeminiContent(messages)
    /\ \E r \in LoopOutcomes :
         /\ generate_calls' = generate_calls + r.calls
         /\ pc' = CASE r.kind = "text" -> "parse"
                    [] r.kind = "empty" -> "loop_head"
                    [] OTHER -> "inner_except"
         /\ exc' = IF r.kind = "raise" THEN r.err ELSE exc
    /\ UNCHANGED <<driver, selfPolicy, selfCounters, elapsed, runs,
                   max_iterations, attempt, iteration, goal_achieved,
                   continue_reason, current_state_hash, messages,
                   response_data, report, quit_calls, acquired>>

\* response_data = self.parse_ai_response(response_text), response_text
\* being any non-empty text
Parse ==
    /\ UNCHANGED <<unitVars, generate_calls, captured, sent>>
    /\ pc = "parse"
    /\ \E r \in ParsedTexts : response_data' = r
    /\ pc' = "dispatch"
    /\ UNCHANGED <<driver, selfPolicy, selfCounters, elapsed, runs,
                   max_iterations, attempt, iteration, goal_achieved,
                   continue_reason, current_state_hash, messages, exc, report,
                   quit_calls, acquired>>

\* the end branch treated like any other action: one turn, next pass
DoEnd_Continues ==
    /\ UNCHANGED <<unitVars, generate_calls, captured, sent>>
    /\ pc = "dispatch"
    /\ response_data.action = "end"
    /\ messages' = Append(messages, Turn("feedback", iteration))
    /\ pc' = "loop_head"
    /\ response_data' = NoData
    /\ UNCHANGED <<driver, selfPolicy, selfCounters, elapsed, runs,
                   max_iterations, attempt, iteration, goal_achieved,
                   continue_reason, current_state_hash, exc, report,
                   quit_calls, acquired>>

\* "if action == 'end'": goal_achieved = True, get_enhanced_page_info, return
\* the report.  When get_enhanced_page_info raises, the per-iteration except
\* clause takes over with goal_achieved already True.
DoEnd ==
    /\ UNCHANGED <<unitVars, generate_calls, captured, sent>>
    /\ pc = "dispatch"
    /\ response_data.action = "end"
    /\ \E info \in {"ok", "raise"} :
         IF info = "ok"
         THEN Return(Report("COMPLETED_BY_AI", iteration, "none"))
         ELSE /\ goal_achieved' = TRUE
              /\ pc' = "inner_except"
              /\ exc' = "browser"
              /\ response_data' = NoData
              /\ UNCHANGED <<driver, attempt, iteration, continue_reason,
                             current_state_hash, messages, report, quit_calls>>
    /\ UNCHANGED <<selfPolicy, selfCounters, elapsed, runs, max_iterations,
                   acquired>>

\* the javascript branch with a script failure that is not counted
DoJavascript_FailureNotCounted ==
    /\ UNCHANGED <<unitVars, generate_calls, sent>>
    /\ pc = "dispatch"
    /\ response_data.action = "javascript"
    /\ IF response_data.javascript = ""
       THEN /\ messages' = Append(messages, Turn("feedback", iteration))
            /\ pc' = "loop_head"
            /\ UNCHANGED <<selfCounters, exc, captured>>
       ELSE IF response_data.javascript = "unsliceable"
       THEN /\ pc' = "inner_except"
            /\ exc' = "type"
            /\ UNCHANGED <<selfCounters, messages, captured>>
       ELSE \E success \in BOOLEAN, read \in {"ok", "raise"} :
              /\ successful_actions' =
                     IF success THEN successful_actions + 1 ELSE successful_actions
              /\ failed_actions' = failed_actions
              /\ executions' = executions + 1
              /\ captured' = Capture(IF success THEN "info" ELSE "location")
              /\ IF read = "ok"
                 THEN /\ messages' = Append(messages, Turn("feedback", iteration))
                      /\ pc' = "loop_head"
                      /\ UNCHANGED exc
                 ELSE /\ pc' = "inner_except"
                      /\ exc' = IF success THEN "browser" ELSE "location"
                      /\ UNCHANGED messages
    /\ response_data' = NoData
    /\ UNCHANGED <<driver, selfPolicy, elapsed, runs, max_iterations, attempt,
                   iteration, goal_achieved, continue_reason,
                   current_state_hash, report, quit_calls, acquired>>

\* the javascript branch that reads the whole page after a failure as well
DoJavascript_AlwaysObserves ==
    /\ UNCHANGED <<unitVars, generate_calls, sent>>
    /\ pc = "dispatch"
    /\ response_data.action = "javascript"
    /\ IF response_data.javascript = ""
       THEN /\ messages' = Append(messages, Turn("feedback", iteration))
            /\ pc' = "loop_head"
            /\ UNCHANGED <<selfCounters, exc, captured>>
       ELSE IF response_data.javascript = "unsliceable"
       THEN /\ pc' = "inner_except"
            /\ exc' = "type"
            /\ UNCHANGED <<selfCounters, messages, captured>>
       ELSE \E success \in BOOLEAN, read \in {"ok", "raise"} :
              /\ successful_actions' =
                     IF success THEN successful_actions + 1 ELSE successful_actions
              /\ failed_actions' =
                     IF success THEN failed_actions ELSE failed_actions + 1
              /\ executions' = executions + 1
              /\ captured' = Capture("info")
              /\ IF read = "ok"
                 THEN /\ messages' = Append(messages, Turn("feedback", iteration))
                      /\ pc' = "loop_head"
                      /\ UNCHANGED exc
                 ELSE /\ pc' = "inner_except"
                      /\ exc' = IF success THEN "browser" ELSE "location"
                      /\ UNCHANGED messages
    /\ response_data' = NoData
    /\ UNCHANGED <<driver, selfPolicy, elapsed, runs, max_iterations, attempt,
                   iteration, goal_achieved, continue_reason,
                   current_state_hash, report, quit_calls, acquired>>

\* "elif action == 'javascript'": no code: one turn and continue; js_code[:100]
\* of the log line raises TypeError on a value that cannot be sliced; otherwise
\* execute_javascript_enhanced (which counts the action and never raises),
\* a screenshot, and the feedback turn.  Building the feedback reads the
\* browser (get_enhanced_page_info on success, driver.current_url on
\* failure), which may raise: exc is "location" for the driver.current_url
\* read of the failure feedback.
DoJavascript ==
    /\ UNCHANGED <<unitVars, generate_calls, sent>>
    /\ pc = "dispatch"
    /\ response_data.action = "javascript"
    /\ IF response_data.javascript = ""
       THEN /\ messages' = Append(messages, Turn("feedback", iteration))
            /\ pc' = "loop_head"
            /\ UNCHANGED <<selfCounters, exc, captured>>
       ELSE IF response_data.javascript = "unsliceable"
       THEN /\ pc' = "inner_except"
            /\ exc' = "type"
            /\ UNCHANGED <<selfCounters, messages, captured>>
       ELSE \E success \in BOOLEAN, read \in {"ok", "raise"} :
              /\ successful_actions' =
                     IF success THEN successful_actions + 1 ELSE successful_actions
              /\ failed_actions' =
                     IF success THEN failed_actions ELSE failed_actions + 1
              /\ executions' = executions + 1
              /\ captured' = Capture(IF success THEN "info" ELSE "location")
              /\ IF read = "ok"
                 THEN /\ messages' = Append(messages, Turn("feedback", iteration))
                      /\ pc' = "loop_head"
                      /\ UNCHANGED exc
                 ELSE /\ pc' = "inner_except"
                      /\ exc' = IF success THEN "browser" ELSE "location"
                      /\ UNCHANGED messages
    /\ response_data' = NoData
    /\ UNCHANGED <<driver, selfPolicy, elapsed, runs, max_iterations, attempt,
                   iteration, goal_achieved, continue_reason,
                   current_state_hash, report, quit_calls, acquired>>

\* the clamp without its lower end
ClampDuration_NoFloor(d) == IF d < 10 THEN d ELSE 10

\* duration = max(1, min(duration, 10))
ClampDuration(d) ==
    LET m == IF d < 10 THEN d ELSE 10
    IN  IF 1 > m THEN 1 ELSE m

\* the arguments the wait branch gives to wait_for_condition.  dur_kind and
\* dur_val are the 'duration' entry of response_data ("missing", an integer,
\* or "bad": a value that does not compare with an int, on which the clamp
\* raises TypeError); cond is its 'condition' entry, "missing" when absent.
WaitArguments(dur_kind, dur_val, cond) ==
    IF dur_kind = "bad"
    THEN [kind |-> "raise", duration |-> 0, condition |-> "none"]
    ELSE [kind |-> "call",
          duration |-> ClampDuration(IF dur_kind = "missing" THEN 3 ELSE dur_val),
          condition |-> IF cond = "missing" THEN "page_load" ELSE cond]

\* "elif action == 'wait'": the clamp raises TypeError on a duration that
\* does not compare with an int; wait_for_condition always returns
\* (True, ...); then screenshot, get_enhanced_page_info and the turn.
DoWait ==
    /\ UNCHANGED <<unitVars, generate_calls, sent>>
    /\ pc = "dispatch"
    /\ response_data.action = "wait"
    /\ IF response_data.dur_kind = "bad"
       THEN /\ pc' = "inner_except"
            /\ exc' = "type"
            /\ UNCHANGED <<messages, captured>>
       ELSE \E info \in {"ok", "raise"} :
            /\ captured' = Capture("info")
            /\ IF info = "ok"
               THEN /\ messages' = Append(messages, Turn("feedback", iteration))
                    /\ pc' = "loop_head"
                    /\ UNCHANGED exc
               ELSE /\ pc' = "inner_except"
                    /\ exc' = "browser"
                    /\ UNCHANGED messages
    /\ response_data' = NoData
    /\ UNCHANGED <<driver, selfPolicy, selfCounters, elapsed, runs,
                   max_iterations, attempt, iteration, goal_achieved,
                   continue_reason, current_state_hash, report, quit_calls,
                   acquired>>

\* the unknown action counted as a failed action
DoUnknown_Counted ==
    /\ UNCHANGED <<unitVars, generate_calls, captured, sent>>
    /\ pc = "dispatch"
    /\ response_data.action \notin {"end", "javascript", "wait"}
    /\ messages' = Append(messages, Turn("feedback", iteration))
    /\ pc' = "loop_head"
    /\ response_data' = NoData
    /\ failed_actions' = failed_actions + 1
    /\ UNCHANGED <<driver, selfPolicy, successful_actions, executions,
                   elapsed, runs, max_iterations, attempt, iteration,
                   goal_achieved, continue_reason, current_state_hash, exc,
                   report, quit_calls, acquired>>

\* "else": unknown action, one turn
DoUnknown ==
    /\ UNCHANGED <<unitVars, generate_calls, captured, sent>>
    /\ pc = "dispatch"
    /\ response_data.action \notin {"end", "javascript", "wait"}
    /\ messages' = Append(messages, Turn("feedback", iteration))
    /\ pc' = "loop_head"
    /\ response_data' = NoData
    /\ UNCHANGED <<driver, selfPolicy, selfCounters, elapsed, runs,
                   max_iterations, attempt, iteration, goal_achieved,
                   continue_reason, current_state_hash, exc, report,
                   quit_calls, acquired>>

\* the per-iteration handler letting a quota error end the session
InnerExcept_FatalAborts ==
    /\ UNCHANGED <<unitVars, generate_calls, captured, sent>>
    /\ pc = "inner_except"
    /\ \E read \in {"ok", "raise"} :
         IF read = "ok" /\ exc # "quota"
         THEN /\ messages' = Append(messages, Turn("feedback", iteration))
              /\ pc' = "loop_head"
              /\ UNCHANGED <<driver, attempt, iteration, goal_achieved,
                             continue_reason, current_state_hash,
                             response_data, exc, report, quit_calls>>
         ELSE OuterExcept(IF read = "ok" THEN exc ELSE "browser")
    /\ UNCHANGED <<selfPolicy, selfCounters, elapsed, runs, max_iterations,
                   acquired>>

\* the per-iteration "except Exception": screenshot, the error turn (whose
\* text reads getattr(self.driver, 'current_url', 'unknown'), which raises
\* when the browser does), continue.
InnerExcept ==
    /\ UNCHANGED <<unitVars, generate_calls, captured, sent>>
    /\ pc = "inner_except"
    /\ \E read \in {"ok", "raise"} :
         IF read = "ok"
         THEN /\ messages' = Append(messages, Turn("feedback", iteration))
              /\ pc' = "loop_head"
              /\ UNCHANGED <<driver, attempt, iteration, goal_achieved,
                             continue_reason, current_state_hash,
                             response_data, exc, report, quit_calls>>
         ELSE OuterExcept("browser")
    /\ UNCHANGED <<selfPolicy, selfCounters, elapsed, runs, max_iterations,
                   acquired>>

\* the end of the loop whose final analysis is asked with the default retries
AfterLoop_DefaultRetries ==
    /\ UNCHANGED <<unitVars, captured, sent>>
    /\ pc = "after_loop"
    /\ IF goal_achieved
       THEN /\ Return(Report("None", iteration, "none"))
            /\ UNCHANGED generate_calls
       ELSE \E info \in {"ok", "raise"} :
              IF info = "ok"
              THEN /\ \E r \in LoopOutcomes :
                        generate_calls' = generate_calls + r.calls
                   /\ Return(Report("COMPLETED", iteration,
                          IF continue_reason = "unset" THEN "Loop ended"
                          ELSE continue_reason))
              ELSE /\ OuterExcept("browser")
                   /\ UNCHANGED generate_calls
    /\ UNCHANGED <<selfPolicy, selfCounters, elapsed, runs, max_iterations,
                   acquired>>

\* after the loop: "if not goal_achieved" the final page info, the final
\* analysis request (one attempt, errors swallowed) and the report;
\* otherwise the try block ends without a return statement.
AfterLoop ==
    /\ UNCHANGED <<unitVars, captured, sent>>
    /\ pc = "after_loop"
    /\ IF goal_achieved
       THEN /\ Return(Report("None", iteration, "none"))
            /\ UNCHANGED generate_calls
       ELSE \E info \in {"ok", "raise"} :
              IF info = "ok"
              THEN /\ \E r \in FinalOutcomes :
                        generate_calls' = generate_calls + r.calls
                   /\ Return(Report("COMPLETED", iteration,
                          IF continue_reason = "unset" THEN "Loop ended"
                          ELSE continue_reason))
              ELSE /\ OuterExcept("browser")
                   /\ UNCHANGED generate_calls
    /\ UNCHANGED <<selfPolicy, selfCounters, elapsed, runs, max_iterations,
                   acquired>>

Next ==
    \/ SetupSelenium
    \/ StartRun
    \/ Navigate
    \/ InitObserve
    \/ LoopHead
    \/ Decide
    \/ OracleCall
    \/ Parse
    \/ DoEnd
    \/ DoJavascript
    \/ DoWait
    \/ DoUnknown
    \/ InnerExcept
    \/ AfterLoop

Spec == Init /\ [][Next]_vars

\* ------------------------------------------------- the policy on its own
\* The object driven through its two methods that write the policy's state,
\* by a caller that is not run_enhanced_test: pc is "decided" right after a
\* should_continue_testing call and "idle" otherwise, and iteration,
\* max_iterations, current_state_hash, elapsed and continue_reason hold the
\* arguments, the clock and the result of the latest call.
PolicyHashes == {GetPageStateHash(o, k) : o \in SessionObs, k \in {0, 1}}

\* a call of should_continue_testing(current_state_hash, iteration, max_iterations)
PolicyCall ==
    /\ UNCHANGED <<unitVars, generate_calls, captured, sent>>
    /\ pc \in {"idle", "decided"}
    /\ consecutive_same_state_count < MaxSame
    /\ \E h \in PolicyHashes, it \in 1..2, n \in 1..2, t \in {0} \cup Times :
         LET d == should_continue_testing(h, it, n, last_page_hash,
                      consecutive_same_state_count, successful_actions,
                      failed_actions, t)
         IN  /\ iteration' = it
             /\ max_iterations' = n
             /\ current_state_hash' = h
             /\ elapsed' = t
             /\ last_page_hash' = d.last
             /\ consecutive_same_state_count' = d.count
             /\ continue_reason' = d.reason
             /\ pc' = "decided"
             /\ IF it >= n
                THEN UNCHANGED <<seen_hash, streak>>
                ELSE /\ seen_hash' = h
                     /\ streak' = IF h = seen_hash THEN streak + 1 ELSE 1
    /\ UNCHANGED <<driver, selfCounters, runs, attempt, goal_achieved,
                   messages, response_data, exc, report, quit_calls, acquired>>

\* a call of execute_javascript_enhanced: one of the two counters goes up
ScriptCall ==
    /\ UNCHANGED <<unitVars, generate_calls, captured, sent>>
    /\ pc \in {"idle", "decided"}
    /\ pc' = "idle"
    /\ successful_actions + failed_actions < MaxActions
    /\ \E success \in BOOLEAN :
         /\ successful_actions' =
                IF success THEN successful_actions + 1 ELSE successful_actions
         /\ failed_actions' =
                IF success THEN failed_actions ELSE failed_actions + 1
    /\ executions' = executions + 1
    /\ UNCHANGED <<driver, selfPolicy, elapsed, runs, max_iterations,
                   locals, report, quit_calls, acquired>>

NextPolicy ==
    \/ PolicyCall
    \/ ScriptCall

SpecPolicy == Init /\ [][NextPolicy]_vars

\* ------------------------------------------- the methods called directly
\* The methods of the object called one at a time by a caller that is not
\* run_enhanced_test: call_args holds the arguments (and what the outside
\* world does during the call), call_result what the call returned or
\* raised; both are dropped when the caller has taken the result.

\* the feedback turns of the passes in S, in the order they were appended
RECURSIVE FeedbackTurns(_)
FeedbackTurns(S) ==
    IF S = {} THEN <<>>
    ELSE LET m == CHOOSE x \in S : \A y \in S : x <= y
         IN  <<Turn("feedback", m)>> \o FeedbackTurns(S \ {m})

\* the conversations run_enhanced_test builds: the initial turn, then at
\* most one feedback turn per pass
Contexts ==
    {<<Turn("initial", 0)>> \o FeedbackTurns(S) :
        S \in {T \in SUBSET (1..MaxCtx) : Cardinality(T) < MaxCtx}}

\* call_gemini_api_robust(messages, max_retries), outs[i] being what the
\* i-th generate_content call does
CallGemini ==
    /\ call_args = NoCall
    /\ \E msgs \in Contexts, mr \in 1..DefaultRetries :
         \E outs \in [1..mr -> Attempts] :
           LET r == call_gemini_api_robust(outs, mr)
           IN  /\ call_args' = [fn |-> "call_gemini_api_robust",
                                messages |-> msgs, max_retries |-> mr,
                                outs |-> outs]
               /\ call_result' = [fn |-> "call_gemini_api_robust",
                                  kind |-> r.kind, err |-> r.err,
                                  calls |-> r.calls, sleeps |-> r.sleeps,
                                  content |-> GeminiContent(msgs)]
    /\ UNCHANGED <<driver, selfPolicy, selfCounters, elapsed, pc, runs,
                   max_iterations, locals, report, quit_calls, acquired,
                   generate_calls, captured, sent>>

\* wait_for_condition(condition, duration)
CallWait ==
    /\ call_args = NoCall
    /\ \E c \in Conditions, chk \in Checks, sl \in BOOLEAN :
         /\ call_args' = [fn |-> "wait_for_condition", condition |-> c,
                          check |-> chk, sleep_ok |-> sl]
         /\ call_result' = [fn |-> "wait_for_condition",
                            ret |-> wait_for_condition(c, chk, sl)]
    /\ UNCHANGED <<driver, selfPolicy, selfCounters, elapsed, pc, runs,
                   max_iterations, locals, report, quit_calls, acquired,
                   generate_calls, captured, sent>>

\* parse_ai_response(response_text)
CallParse ==
    /\ call_args = NoCall
    /\ \E t \in Texts \cup {EmptyText} :
         /\ call_args' = [fn |-> "parse_ai_response", response_text |-> t]
         /\ call_result' = [fn |-> "parse_ai_response", kind |-> "return",
                            ret |-> parse_ai_response(t)]
    /\ UNCHANGED <<driver, selfPolicy, selfCounters, elapsed, pc, runs,
                   max_iterations, locals, report, quit_calls, acquired,
                   generate_calls, captured, sent>>

\* get_page_state_hash() on a page and again on a page at a later reading
\* of the clock, each value given to should_continue_testing as the loop
\* does on an object whose last_page_hash is None; same_count is
\* consecutive_same_state_count after the second
CallHash ==
    /\ call_args = NoCall
    /\ \E o1 \in HashObs, o2 \in HashObs, later \in {0, 1} :
         LET h1 == GetPageStateHash(o1, 0)
             h2 == GetPageStateHash(o2, later)
             d1 == should_continue_testing(h1, 1, 3, NoHash, 0, 0, 0, 0)
             d2 == should_continue_testing(h2, 2, 3, d1.last, d1.count, 0, 0, 0)
         IN  /\ call_args' = [fn |-> "get_page_state_hash", first |-> o1,
                              second |-> o2, clock |-> <<0, later>>]
             /\ call_result' = [fn |-> "get_page_state_hash",
                                kind |-> "return", first |-> h1,
                                second |-> h2, same_count |-> d2.count]
    /\ UNCHANGED <<driver, selfPolicy, selfCounters, elapsed, pc, runs,
                   max_iterations, locals, report, quit_calls, acquired,
                   generate_calls, captured, sent>>

\* the first lines of the wait branch, on the duration and condition entries
\* of a response: what wait_for_condition is called with
WaitHints == (0 - MaxHint)..MaxHint
CallWaitBranch ==
    /\ call_args = NoCall
    /\ \E k \in {"missing", "int", "bad"}, v \in WaitHints,
          c \in Conditions \cup {"missing"} :
         /\ (k # "int") => v = 0
         /\ call_args' = [fn |-> "wait_branch", dur_kind |-> k,
                          dur_val |-> v, cond |-> c]
         /\ call_result' = [fn |-> "wait_branch",
                            args |-> WaitArguments(k, v, c)]
    /\ UNCHANGED <<driver, selfPolicy, selfCounters, elapsed, pc, runs,
                   max_iterations, locals, report, quit_calls, acquired,
                   generate_calls, captured, sent>>

\* the caller takes the result
CallReturn ==
    /\ call_args # NoCall
    /\ call_args' = NoCall
    /\ call_result' = NoCall
    /\ UNCHANGED <<driver, selfPolicy, selfCounters, elapsed, pc, runs,
                   max_iterations, locals, report, quit_calls, acquired,
                   generate_calls, captured, sent>>

NextCalls ==
    \/ CallGemini
    \/ CallWait
    \/ CallParse
    \/ CallHash
    \/ CallWaitBranch
    \/ CallReturn

SpecCalls == Init /\ [][NextCalls]_vars

\* ------------------------------------------------------------------ claims
\* the reports that are a text
TextReports == {"NAV_FAILED", "COMPLETED_BY_AI", "COMPLETED", "FAILED"}
\* the errors call_gemini_api_robust re-raises
OracleErrors == {"quota", "transient", "other"}

\* C1: every call of run_enhanced_test that has returned handed its caller a
\* textual report: no exception left the call and no call ended without a
\* report.
C1_AlwaysTextReport ==
    pc = "returned" => report.status \in TextReports

\* C2: a call that started with a browser has not released it while it runs,
\* and has released it exactly once (driver.quit) and cleared the reference
\* when it has returned, whatever the exit path; no call quits twice.
C2_QuitExactlyOnce ==
    /\ quit_calls <= 1
    /\ (acquired /\ pc \notin {"idle", "returned"}) => (driver /\ quit_calls = 0)
    /\ (acquired /\ pc = "returned") => (~driver /\ quit_calls = 1)

\* C2 witness: a call that had a browser left by an escaping exception
C2_Witness ==
    /\ pc = "returned"
    /\ acquired
    /\ report.status = "RAISED"
    /\ quit_calls = 1

\* C3 as stated: a quota error that leaves the oracle client in a cycle ends
\* the session in that cycle with the error report.
C3_FatalEndsSession ==
    [][(pc = "inner_except" /\ exc = "quota")
         => (pc' = "returned" /\ report'.status = "FAILED")]_vars

\* C3 amended: an error that leaves the oracle client in a cycle is caught by
\* the per-iteration handler, which appends one turn and goes on to the next
\* pass unless its own browser read raises; every error report and every
\* escaping exception of a session is due to a browser call, never to the
\* oracle.
C3_OracleErrorAbsorbed ==
    [][/\ (pc = "inner_except" /\ exc \in OracleErrors)
            => \/ /\ pc' = "loop_head"
                  /\ messages' = Append(messages, Turn("feedback", iteration))
                  /\ iteration' = iteration
                  /\ report' = NoReport
               \/ /\ pc' = "returned"
                  /\ report'.status \in {"FAILED", "RAISED"}
       /\ (report'.status \in {"FAILED", "RAISED"}) => report'.reason = "browser"
      ]_vars

\* C3 witness: a quota error was absorbed and the next pass will run
C3_Witness ==
    /\ pc = "loop_head"
    /\ exc = "quota"
    /\ ~goal_achieved
    /\ iteration < max_iterations
    /\ Len(messages) = 2

\* C4: right after an evaluation with iteration >= max_iterations the
\* decision is IterationCapReached, whatever the fingerprint, the counters
\* and the clock are.
C4_CapAlwaysWins ==
    (pc = "decided" /\ iteration >= max_iterations)
        => continue_reason = "IterationCapReached"

\* C4 witness: the cap decided while the fingerprint repeats at the
\* threshold, the failure rate is high and the clock is past the limit
C4_Witness ==
    /\ pc = "decided"
    /\ iteration >= max_iterations
    /\ continue_reason = "IterationCapReached"
    /\ current_state_hash = last_page_hash
    /\ consecutive_same_state_count + 1 >= max_same_state_count
    /\ FailureRateHigh(successful_actions, failed_actions)
    /\ elapsed > TimeLimit

\* C5 as stated: below the iteration cap, an elapsed time of 300 s or more
\* always gives TimeCapReached.
C5_TimeBeforeOthers ==
    (pc = "decided" /\ iteration < max_iterations /\ elapsed >= TimeLimit)
        => continue_reason = "TimeCapReached"

\* C5 amended: below the iteration cap the decision is TimeCapReached exactly
\* when the elapsed time is strictly above 300 s and neither the stagnation
\* threshold is reached nor the failure rate is high: the clock is the last
\* signal tested.
C5_TimeIsLast ==
    (pc = "decided" /\ iteration < max_iterations)
        => (continue_reason = "TimeCapReached"
              <=> /\ elapsed > TimeLimit
                  /\ consecutive_same_state_count < max_same_state_count
                  /\ ~FailureRateHigh(successful_actions, failed_actions))

\* C5 witness: the clock decides with a repeated fingerprint below the
\* threshold and three counted actions
C5_Witness ==
    /\ pc = "decided"
    /\ iteration < max_iterations
    /\ continue_reason = "TimeCapReached"
    /\ elapsed = TimeLimit + 1
    /\ consecutive_same_state_count = 1
    /\ successful_actions + failed_actions >= MinActions

\* C6 as stated: below the cap, the second of two consecutive evaluations
\* with equal fingerprints returns Stagnation.
C6_SecondEqualStops ==
    (pc = "decided" /\ iteration < max_iterations /\ streak = 2)
        => continue_reason = "Stagnation"

\* C6 amended: below the cap, the policy returns Stagnation exactly at an
\* evaluation that is at least the third in a row with the same fingerprint:
\* the first records it with counter 0, the second raises the counter to 1,
\* the third reaches the threshold 2.
C6_ThirdEqualStops ==
    (pc = "decided" /\ iteration < max_iterations)
        => /\ continue_reason = "Stagnation" <=> streak >= 3
           /\ consecutive_same_state_count = streak - 1

\* C6 witness: the third evaluation in a row with one fingerprint stopped
C6_Witness ==
    /\ pc = "decided"
    /\ iteration < max_iterations
    /\ streak = 3
    /\ continue_reason = "Stagnation"

\* C7: an evaluation that passes the iteration-cap check sets the counter to 0
\* and stores the fingerprint when it differs from the stored one, and adds
\* exactly 1 and keeps the stored one when it is equal; no other step of a
\* session writes the counter or the stored fingerprint.
C7_CounterUpdate ==
    [][IF pc = "loop_head" /\ pc' = "decided" /\ iteration' < max_iterations
       THEN IF current_state_hash' = last_page_hash
            THEN /\ consecutive_same_state_count' =
                        consecutive_same_state_count + 1
                 /\ last_page_hash' = last_page_hash
            ELSE /\ consecutive_same_state_count' = 0
                 /\ last_page_hash' = current_state_hash'
       ELSE UNCHANGED <<last_page_hash, consecutive_same_state_count>>
      ]_vars

\* C7 witness: the counter went up at the evaluation after a failed script
C7_Witness ==
    /\ pc = "decided"
    /\ runs = 1
    /\ iteration = 2
    /\ iteration < max_iterations
    /\ failed_actions = 1
    /\ consecutive_same_state_count = 1

\* C8 as stated: HighFailureRate exactly when the cap, the clock and the
\* stagnation test do not fire, at least 3 actions were counted and more
\* than 0.7 of them failed.
C8_AfterTime ==
    pc = "decided"
        => (continue_reason = "HighFailureRate"
              <=> /\ iteration < max_iterations
                  /\ ~(elapsed >= TimeLimit)
                  /\ consecutive_same_state_count < max_same_state_count
                  /\ successful_actions + failed_actions >= 3
                  /\ 10 * failed_actions >
                        7 * (successful_actions + failed_actions))

\* C8 amended: HighFailureRate exactly when the cap and the stagnation test do
\* not fire, at least 3 actions were counted and more than 0.7 of them
\* failed; the clock is tested after the failure rate and does not matter.
C8_BeforeTime ==
    pc = "decided"
        => (continue_reason = "HighFailureRate"
              <=> /\ iteration < max_iterations
                  /\ consecutive_same_state_count < max_same_state_count
                  /\ successful_actions + failed_actions >= 3
                  /\ 10 * failed_actions >
                        7 * (successful_actions + failed_actions))

\* C8 witness: three failures out of four, with the clock past the limit
C8_Witness ==
    /\ pc = "decided"
    /\ continue_reason = "HighFailureRate"
    /\ failed_actions = 3
    /\ successful_actions = 1
    /\ elapsed > TimeLimit

\* C9 as stated: in the first session of an object, with max_iterations >= 1
\* and the clock within the limit, the first pass goes on to request the
\* oracle's instruction.
C9_FirstCycleAsksOracle ==
    (/\ pc = "decided"
     /\ runs = 1
     /\ iteration = 1
     /\ max_iterations >= 1
     /\ elapsed <= TimeLimit)
        => continue_reason = "Continue"

GeminiCalled == call_result.fn = "call_gemini_api_robust"
\* every generate_content call of the latest client call raised an error of class c
AllAttemptsRaise(c) ==
    \A i \in 1..call_args.max_retries :
        /\ call_args.outs[i].kind = "error"
        /\ ErrorClass(call_args.outs[i]) = c

C14_TransientMarkerWins ==
    (/\ GeminiCalled
     /\ \A i \in 1..call_args.max_retries :
            /\ call_args.outs[i].kind = "error"
            /\ call_args.outs[i].transient)
        => /\ call_result.err = "transient"
           /\ call_result.sleeps = [i \in 1..(call_args.max_retries - 1) |-> 3 * i]

\* C15: when every generate call raises an error that is neither quota/limit
\* nor transient, the client makes exactly max_retries calls, sleeps 2 s
\* after each but the last, and re-raises the error; no call of the client
\* makes more than max_retries generate calls.
C15_DefaultFixedDelay ==
    /\ GeminiCalled => call_result.calls <= call_args.max_retries
    /\ (GeminiCalled /\ AllAttemptsRaise("other"))
        => /\ call_result.kind = "raise"
           /\ call_result.err = "other"
           /\ call_result.calls = call_args.max_retries
           /\ call_result.sleeps = [i \in 1..(call_args.max_retries - 1) |-> 2]

\* C15 witness: three other errors, two sleeps of 2 s, the error re-raised
C15_Witness ==
    /\ GeminiCalled
    /\ call_args.max_retries = 3
    /\ AllAttemptsRaise("other")
    /\ call_result.kind = "raise"
    /\ call_result.sleeps = <<2, 2>>

\* C16: a client call with a conversation of N turns hands generate
\* min(N, 2) turns, the last ones of the conversation, in their order.
C16_WindowIsLastTwo ==
    GeminiCalled
        => LET N == Len(call_args.messages)
               k == Len(call_result.content)
           IN  /\ k = IF N < 2 THEN N ELSE 2
               /\ \A i \in 1..k :
                      call_result.content[i] = call_args.messages[N - k + i]

\* C16 witness: a conversation of four turns, the last two transmitted
C16_Witness ==
    /\ GeminiCalled
    /\ Len(call_args.messages) = 4
    /\ call_result.content = SubSeq(call_args.messages, 3, 4)

\* C11: the oracle is asked for an instruction only right after a policy
\* evaluation of the same pass that returned Continue, an action is parsed
\* and dispatched only after that request, and a decision other than
\* Continue leads to the final report and the exit without any of them.
C11_PolicyBeforeCycle ==
    [][/\ (pc' = "oracle")
            => (pc = "decided" /\ continue_reason = "Continue"
                /\ iteration' = iteration /\ iteration < max_iterations)
       /\ (pc' = "parse") => pc = "oracle"
       /\ (pc' = "dispatch") => pc = "parse"
       /\ (pc \in {"oracle", "parse", "dispatch"})
            => (continue_reason = "Continue"
                /\ (pc' # "returned" => iteration' = iteration))
       /\ (pc = "decided" /\ continue_reason # "Continue") => pc' = "after_loop"
       /\ (pc = "after_loop") => pc' = "returned"
      ]_vars

\* C11 witness: the policy stopped the third pass of a session
C11_Witness ==
    /\ pc = "after_loop"
    /\ iteration = 3
    /\ continue_reason = "Stagnation"
    /\ Len(messages) >= 2

\* C17: navigation is tried at most 3 times and never again after a
\* success; the first observation is made only with a loaded page; the third
\* failure returns the failure text with no pass of the loop made, no turn
\* built and the browser released.
C17_NavigationBounded ==
    [][/\ attempt <= NavAttempts - 1
       /\ (pc' = "navigate") => pc \in {"idle", "returned", "navigate"}
       /\ (pc' = "observe") => (pc = "navigate" /\ driver)
       /\ (pc = "navigate" /\ pc' = "navigate") => attempt' = attempt + 1
       /\ (report'.status = "NAV_FAILED" /\ pc = "navigate")
            => /\ attempt = NavAttempts - 1
               /\ pc' = "returned"
               /\ report'.iterations = 0
               /\ iteration = 0
               /\ messages = <<>>
               /\ ~driver'
               /\ quit_calls' = IF acquired THEN 1 ELSE 0
       /\ (pc = "navigate" /\ pc' = "returned") => report'.status = "NAV_FAILED"
      ]_vars

\* C17 witness: three failed attempts with a browser, which was then quit
C17_Witness ==
    /\ pc = "returned"
    /\ report.status = "NAV_FAILED"
    /\ acquired
    /\ quit_calls = 1
    /\ ~driver

\* a step that executes a script
ScriptStep ==
    /\ pc = "dispatch"
    /\ response_data.action = "javascript"
    /\ response_data.javascript = "code"
\* the per-iteration handler appends its turn and the loop goes on
HandlerGoesOn ==
    /\ pc' = "loop_head"
    /\ messages' = Append(messages, Turn("feedback", iteration))
    /\ iteration' = iteration
    /\ iteration < max_iterations
    /\ ~goal_achieved'

WaitCalled == call_result.fn = "wait_for_condition"

\* C19: every call of wait_for_condition returns, with success = True,
\* whatever the condition hint is and whatever its readiness check and its
\* sleep do.
C19_WaitAlwaysSucceeds ==
    WaitCalled
        => /\ call_result.ret.kind = "return"
           /\ call_result.ret.success = TRUE

\* C19 witness: a page_load wait whose readiness check timed out
C19_Witness ==
    /\ WaitCalled
    /\ call_args.condition = "page_load"
    /\ call_args.check = "timeout"
    /\ call_result.ret.success = TRUE
    /\ call_result.ret.msg = "warning"

\* a direct call of parse_ai_response has ended
ParseCalled == call_result.fn = "parse_ai_response"
\* the text of the call holds no usable JSON action and takes none of the
\* keyword branches
NothingRecognised ==
    /\ ExtractJson(call_args.response_text) = NoData
    /\ ~call_args.response_text.end_kw
    /\ ~(call_args.response_text.interact_kw /\ call_args.response_text.call_kw)
    /\ ~call_args.response_text.wait_kw

\* C20 as stated: parse_ai_response returns an action record for every text,
\* and an End whose report embeds the whole raw text when nothing is
\* recognised in it.
C20_FallbackEmbedsRawText ==
    ParseCalled
        => /\ call_result.kind = "return"
           /\ call_result.ret.action \in {"end", "javascript", "wait", "other"}
           /\ NothingRecognised
                => /\ call_result.ret.action = "end"
                   /\ call_args.response_text.size # "empty"
                        => call_result.ret.analysis_report = "wrapped"

\* C20 amended: parse_ai_response returns an action record for every text
\* and never raises; when nothing is recognised it returns End: without a
\* report for the empty text, with a report that embeds the whole text when
\* it has at most 500 characters, and with a report that embeds only its
\* first 500 characters otherwise.
C20_FallbackEmbedsPrefix ==
    ParseCalled
        => /\ call_result.kind = "return"
           /\ call_result.ret.action \in {"end", "javascript", "wait", "other"}
           /\ NothingRecognised
                => /\ call_result.ret.action = "end"
                   /\ call_result.ret.analysis_report =
                        CASE call_args.response_text.size = "empty" -> "absent"
                          [] call_args.response_text.size = "short" -> "wrapped"
                          [] call_args.response_text.size = "long" -> "prefix500"

\* C20 witness: a long text in which nothing is recognised became End
C20_Witness ==
    /\ ParseCalled
    /\ NothingRecognised
    /\ call_args.response_text.size = "long"
    /\ call_args.response_text.interact_kw
    /\ call_result.ret = EndWith("prefix500")

\* the text of the call is not empty and no JSON action is extracted from it
HeuristicsOnly ==
    /\ ParseCalled
    /\ call_args.response_text.size # "empty"
    /\ ExtractJson(call_args.response_text) = NoData

\* C21 as stated: a text that holds a parseable structured action, as the
\* whole text, in a fenced block or as an embedded object with an "action"
\* key, is interpreted as that action; the vocabulary heuristics are used
\* only when the text holds none.
C21_StructuredActionWins ==
    (ParseCalled /\ call_args.response_text.json # NoData)
        => call_result.ret = call_args.response_text.json

\* C22 as stated: without structured data, a text that contains 'complete',
\* 'done', 'success', 'finished' or 'achieved' is interpreted as End,
\* whatever interaction or loading vocabulary it also contains.
C22_AchievedEnds ==
    (/\ HeuristicsOnly
     /\ \/ call_args.response_text.end_kw
        \/ call_args.response_text.achieved_kw)
        => call_result.ret.action = "end"

\* C22 amended: without structured data, a text that contains one of
\* 'complete', 'finished', 'done', 'success', 'found the',
\* 'task accomplished', 'objective achieved' is interpreted as End with the
\* text as its report, whatever interaction or loading vocabulary it also
\* contains; a text with none of them, the word 'achieved' included, is
\* interpreted by the tests that follow.
C22_EndKeywordsFirst ==
    HeuristicsOnly
        => /\ call_args.response_text.end_kw
                => call_result.ret = EndWith("text")
           /\ ~call_args.response_text.end_kw
                => /\ call_result.ret # EndWith("text")
                   /\ (/\ call_args.response_text.interact_kw
                       /\ call_args.response_text.call_kw)
                        => call_result.ret.action = "javascript"

\* C22 witness: a text with an end keyword, interaction and loading
\* vocabulary became End
C22_Witness ==
    /\ HeuristicsOnly
    /\ call_args.response_text.end_kw
    /\ call_args.response_text.interact_kw
    /\ call_args.response_text.call_kw
    /\ call_args.response_text.wait_kw
    /\ call_result.ret = EndWith("text")

\* C23 as stated: without structured data and completion vocabulary, a text
\* that contains 'click', 'fill' or 'submit' is always interpreted as
\* RunScript with a non-empty script, whatever loading vocabulary it contains.
C23_InteractionAlwaysScript ==
    (/\ HeuristicsOnly
     /\ ~call_args.response_text.end_kw
     /\ ~call_args.response_text.achieved_kw
     /\ call_args.response_text.interact_kw)
        => call_result.ret = JsData("code")

\* C23 amended: without structured data and end keyword, a text that
\* contains 'click', 'fill' or 'submit' is interpreted as RunScript with a
\* non-empty generic script only if it also contains 'click(', 'fill(' or
\* 'type', and then whatever loading vocabulary it contains; otherwise it is
\* interpreted as Wait of 3 seconds if it contains 'wait' or 'loading' and
\* as the default End if not.
C23_InteractionNeedsCall ==
    (/\ HeuristicsOnly
     /\ ~call_args.response_text.end_kw
     /\ call_args.response_text.interact_kw)
        => call_result.ret =
             IF call_args.response_text.call_kw THEN JsData("code")
             ELSE IF call_args.response_text.wait_kw THEN WaitData("int", 3)
             ELSE EndWith(RawResponse(call_args.response_text))

\* C23 witness: a text with interaction vocabulary, a call and loading
\* vocabulary became RunScript
C23_Witness ==
    /\ HeuristicsOnly
    /\ ~call_args.response_text.end_kw
    /\ call_args.response_text.interact_kw
    /\ call_args.response_text.call_kw
    /\ call_args.response_text.wait_kw
    /\ call_result.ret = JsData("code")

\* C28: one call of call_gemini_api_robust calls generate at most max_retries
\* times; it stops at the first attempt that returns a non-empty text,
\* whatever errors and empty responses came before; and when every attempt
\* returns an empty response it returns the empty string after max_retries
\* calls, without raising and without any sleep.
C28_BoundedStopsAtText ==
    GeminiCalled
        => /\ call_result.calls \in 1..call_args.max_retries
           /\ \A k \in 1..call_args.max_retries :
                (/\ call_args.outs[k].kind \in {"text", "blank"}
                 /\ \A j \in 1..(k - 1) :
                      call_args.outs[j].kind \notin {"text", "blank"})
                    => /\ call_result.calls = k
                       /\ call_result.kind # "raise"
                       /\ call_result.kind = "text"
                            <=> call_args.outs[k].kind = "text"
           /\ (\A k \in 1..call_args.max_retries :
                 call_args.outs[k].kind = "empty")
                => /\ call_result.kind = "empty"
                   /\ call_result.calls = call_args.max_retries
                   /\ call_result.sleeps = <<>>

\* C28 witness: an error, then a text, and a third attempt that is not made
C28_Witness ==
    /\ GeminiCalled
    /\ call_args.max_retries = DefaultRetries
    /\ call_args.outs[1].kind = "error"
    /\ call_args.outs[2].kind = "text"
    /\ call_args.outs[3].kind = "text"
    /\ call_result.kind = "text"
    /\ call_result.calls = 2
    /\ Len(call_result.sleeps) = 1

HashCalled == call_result.fn = "get_page_state_hash"
\* the two observations agree on location, title, element counts and
\* readiness
SameFourFields ==
    /\ call_args.first.url = call_args.second.url
    /\ call_args.first.title = call_args.second.title
    /\ call_args.first.counts = call_args.second.counts
    /\ call_args.first.ready = call_args.second.ready
\* both observations are read in the way r
BothReadable(r) ==
    /\ call_args.first.readable = r
    /\ call_args.second.readable = r

\* C24 as stated: two observations of readable pages that agree on location,
\* title, element counts and readiness have equal fingerprints, whatever
\* the page source length and the time of the call.
C24_FourFieldsDecide ==
    (HashCalled /\ BothReadable("all") /\ SameFourFields)
        => call_result.first = call_result.second

\* C24 amended: the fingerprint of a readable page is a function of
\* location, title, page source length, element counts and readiness: two
\* observations that agree on the five have equal fingerprints whatever the
\* time of the call, and two that agree on the four others and differ in
\* the page source length have different fingerprints.
C24_FiveFieldsDecide ==
    (HashCalled /\ BothReadable("all") /\ SameFourFields)
        => (call_result.first = call_result.second
              <=> call_args.first.content_length
                    = call_args.second.content_length)

\* C24 witness: two readable observations that differ only in the page
\* source length and in the time of the call, with different fingerprints
C24_Witness ==
    /\ HashCalled
    /\ BothReadable("all")
    /\ SameFourFields
    /\ call_args.clock = <<0, 1>>
    /\ call_args.first.content_length # call_args.second.content_length
    /\ call_result.first # call_result.second

\* C25 as stated: get_page_state_hash never raises, and two computations
\* under the same unreadable condition, unreadable location or title
\* included, return equal values, so that the second is counted as the same
\* state.
C25_FixedSentinel ==
    HashCalled
        => /\ call_result.kind = "return"
           /\ (/\ call_args.first = call_args.second
               /\ call_args.first.readable # "all")
                => /\ call_result.first = call_result.second
                   /\ call_result.same_count = 1

\* C25 amended: get_page_state_hash never raises.  When only the content
\* reads fail it returns the hash of location and title, so two such
\* computations on the same location and title are equal and the second is
\* counted as the same state.  When location or title is unreadable it
\* returns the reading of the clock: two computations at different readings
\* differ, and the second is not counted as the same state.
C25_FallbackByReadability ==
    HashCalled
        => /\ call_result.kind = "return"
           /\ (/\ BothReadable("basic")
               /\ call_args.first.url = call_args.second.url
               /\ call_args.first.title = call_args.second.title)
                => /\ call_result.first = call_result.second
                   /\ call_result.same_count = 1
           /\ (BothReadable("none") /\ call_args.clock[1] # call_args.clock[2])
                => /\ call_result.first # call_result.second
                   /\ call_result.same_count = 0

\* C25 witness: the same page with an unreadable location, fingerprinted at
\* two readings of the clock
C25_Witness ==
    /\ HashCalled
    /\ call_args.first = call_args.second
    /\ call_args.first.readable = "none"
    /\ call_args.clock = <<0, 1>>
    /\ call_result.first = <<3, 0>>
    /\ call_result.second = <<3, 1>>
    /\ call_result.same_count = 0

\* C27 as stated: at the beginning of every run_enhanced_test call, on an
\* object that has run before as well, the success and failure counters
\* are 0, the stagnation counter is 0 and the last fingerprint is unset.
C27_FreshAtStart ==
    (pc = "navigate" /\ attempt = 0)
        => /\ successful_actions = 0
           /\ failed_actions = 0
           /\ consecutive_same_state_count = 0
           /\ last_page_hash = NoHash

\* a RunScript whose code is not empty is dispatched
NonEmptyCodeStep ==
    /\ pc = "dispatch"
    /\ response_data.action = "javascript"
    /\ response_data.javascript # ""

\* C30 as stated: successful_actions + failed_actions is the number of
\* script executions so far; every RunScript with non-empty code adds 1 to
\* exactly one of the two counters, and no other step changes either.
C30_NonEmptyCodeCounts ==
    [][/\ successful_actions' + failed_actions' = executions'
       /\ NonEmptyCodeStep
            => \/ /\ successful_actions' = successful_actions + 1
                  /\ failed_actions' = failed_actions
               \/ /\ successful_actions' = successful_actions
                  /\ failed_actions' = failed_actions + 1
       /\ ~NonEmptyCodeStep => UNCHANGED selfCounters
      ]_vars

\* C30 amended: successful_actions + failed_actions is the number of script
\* executions so far; every RunScript whose code is a non-empty text is
\* executed and adds 1 to exactly one of the two counters; every other step
\* (Wait, End, Unknown, RunScript with empty code or with a code value that
\* is not a text, an empty oracle response, an oracle error, the handlers)
\* executes nothing and leaves both counters as they are.
C30_CountersMatchExecutions ==
    [][/\ successful_actions + failed_actions = executions
       /\ successful_actions' + failed_actions' = executions'
       /\ ScriptStep
            => /\ executions' = executions + 1
               /\ \/ /\ successful_actions' = successful_actions + 1
                     /\ failed_actions' = failed_actions
                  \/ /\ successful_actions' = successful_actions
                     /\ failed_actions' = failed_actions + 1
       /\ ~ScriptStep => UNCHANGED selfCounters
      ]_vars

\* C30 witness: two scripts ran, one succeeded and one failed, and a later
\* RunScript with a code value that is not a text raised without counting
C30_Witness ==
    /\ pc = "inner_except"
    /\ exc = "type"
    /\ executions = 2
    /\ successful_actions = 1
    /\ failed_actions = 1

\* the positions of a pass after the policy has let it through
PastPolicy == {"oracle", "parse", "dispatch", "inner_except"}

\* C29: in a session with max_iterations = N >= 1, iteration goes up by one
\* at the head of every pass, is not changed by anything else in the pass
\* and never exceeds N; only passes numbered up to N - 1 reach the oracle
\* request or a dispatch; and generate is called at most 3 * (N - 1) + 1
\* times in the session.
C29_BoundedPasses ==
    [][(max_iterations' >= 1)
          => /\ iteration' <= max_iterations'
             /\ (pc' \in PastPolicy) => iteration' <= max_iterations' - 1
             /\ generate_calls' <= 3 * (max_iterations' - 1) + 1
             /\ (pc = "loop_head" /\ pc' = "decided")
                  => iteration' = iteration + 1
             /\ (pc \in PastPolicy \cup {"decided"}
                     /\ pc' \in PastPolicy \cup {"loop_head", "after_loop"})
                  => iteration' = iteration
      ]_vars

\* C29 witness: a session with max_iterations = 3 has returned after
\* 3 * 2 + 1 generate calls
C29_Witness ==
    /\ pc = "returned"
    /\ max_iterations = 3
    /\ generate_calls = 7
    /\ report.iterations = 3

\* a Wait whose duration can be clamped is dispatched: the wait is executed
WaitStep ==
    /\ pc = "dispatch"
    /\ response_data.action = "wait"
    /\ response_data.dur_kind # "bad"

\* C26 as stated: after every executed RunScript or Wait, succeeded or
\* failed, a screenshot is taken and a fresh observation of the page is
\* read before the loop goes on to the next oracle request.
C26_AlwaysObserved ==
    [][(ScriptStep \/ WaitStep) => captured' = Capture("info")]_vars

\* C26 amended: after every executed RunScript or Wait a screenshot is
\* taken before the loop goes on; a fresh observation of the page is read
\* after a successful RunScript and after a Wait, while after a failed
\* RunScript only the location is read; no other step of a pass takes
\* either, and the next pass starts with nothing taken.
C26_ObservedUnlessFailed ==
    [][/\ ScriptStep
            => captured' =
                 Capture(IF successful_actions' # successful_actions
                         THEN "info" ELSE "location")
       /\ WaitStep => captured' = Capture("info")
       /\ (pc = "loop_head" \/ pc' = "navigate") => captured' = NoCapture
       /\ ~(ScriptStep \/ WaitStep \/ pc = "loop_head" \/ pc' = "navigate")
            => captured' = captured
       /\ (pc' = "oracle") => captured' = NoCapture
      ]_vars

\* C26 witness: the first script of a session failed; a screenshot was
\* taken and the location was read, the page was not
C26_Witness ==
    /\ pc = "loop_head"
    /\ runs = 1
    /\ failed_actions = 1
    /\ successful_actions = 0
    /\ exc = "none"
    /\ Len(messages) = 2
    /\ captured = Capture("location")

\* the positions between the first turn and the end of the loop
LoopPositions == PastPolicy \cup {"loop_head", "decided", "after_loop"}

\* no turn of the conversation was appended by the pass numbered it
NoTurnOf(it) == \A i \in 1..Len(messages) : messages[i].at # it

\* C31: every turn of the conversation has role 'user'; a step of the loop
\* leaves the conversation as it is or appends one turn to it, and a pass
\* appends at most one; an empty oracle response appends none, and the
\* request of the pass after it transmits the window the request before
\* transmitted.
C31_AppendOnly ==
    [][/\ \A i \in 1..Len(messages') : messages'[i].role = "user"
       /\ (pc \in LoopPositions /\ pc' \in LoopPositions)
            => \/ messages' = messages
               \/ /\ Len(messages') = Len(messages) + 1
                  /\ SubSeq(messages', 1, Len(messages)) = messages
                  /\ messages'[Len(messages')].at = iteration
                  /\ \A i \in 1..Len(messages) : messages[i].at < iteration
       /\ (pc = "oracle" /\ pc' = "loop_head") => messages' = messages
       /\ (pc = "oracle" /\ iteration >= 2 /\ NoTurnOf(iteration - 1))
            => sent' = sent
      ]_vars

\* C31 witness: the first pass got an empty response after three attempts
\* and appended nothing; the request of the second pass sent the initial
\* turn again and got a text
C31_Witness ==
    /\ pc = "parse"
    /\ iteration = 2
    /\ generate_calls > DefaultRetries
    /\ messages = <<Turn("initial", 0)>>
    /\ sent = messages

\* the content list s holds the initial turn, the one with the system prompt
\* and the task description
HasInitialTurn(s) == \E i \in 1..Len(s) : s[i].kind = "initial"

\* C32: an oracle request of the loop transmits the initial turn exactly
\* when the conversation holds at most 2 turns; once two feedback turns
\* have been appended, no request of the loop transmits it.
C32_InitialTurnLeavesWindow ==
    [][(pc = "oracle")
          => /\ HasInitialTurn(sent') <=> Len(messages) <= 2
             /\ HasInitialTurn(messages)
      ]_vars

\* C32 witness: a request made with two feedback turns in the conversation
\* transmitted the two and not the initial turn
C32_Witness ==
    /\ pc = "parse"
    /\ Len(messages) = 3
    /\ messages[1].kind = "initial"
    /\ sent = SubSeq(messages, 2, 3)
    /\ ~HasInitialTurn(sent)

\* the loop has ended without an End of the oracle
EndedWithoutEnd == pc = "after_loop" /\ ~goal_achieved

C34_CounterWithinThreshold ==
    (runs <= 1)
        => /\ consecutive_same_state_count \in 0..max_same_state_count
           /\ (pc \in PastPolicy)
                => consecutive_same_state_count < max_same_state_count
           /\ (pc = "decided"
                  /\ consecutive_same_state_count = max_same_state_count)
                => continue_reason = "Stagnation"

\* C34 witness: the counter reached the threshold and the pass went to the
\* end of the loop
C34_Witness ==
    /\ runs = 1
    /\ pc = "after_loop"
    /\ consecutive_same_state_count = max_same_state_count
    /\ continue_reason = "Stagnation"
    /\ iteration < max_iterations

\* C35: an evaluation of should_continue_testing that returns
\* IterationCapReached leaves the stored fingerprint and the stagnation
\* counter as they were; every other evaluation, whatever it returns, ends
\* with the evaluated fingerprint stored and the counter raised by one when
\* it equals the stored one and set to 0 when it does not.
C35_CapLeavesFieldsAlone ==
    [][(pc' = "decided")
          => IF continue_reason' = "IterationCapReached"
             THEN /\ last_page_hash' = last_page_hash
                  /\ consecutive_same_state_count'
                        = consecutive_same_state_count
                  /\ iteration' >= max_iterations'
             ELSE /\ last_page_hash' = current_state_hash'
                  /\ consecutive_same_state_count' =
                        IF current_state_hash' = last_page_hash
                        THEN consecutive_same_state_count + 1
                        ELSE 0
                  /\ iteration' < max_iterations'
      ]_vars

\* C35 witness: an evaluation that returned HighFailureRate has stored a
\* fingerprint and counted it once more
C35_Witness ==
    /\ pc = "decided"
    /\ continue_reason = "HighFailureRate"
    /\ last_page_hash = current_state_hash
    /\ consecutive_same_state_count = 1
    /\ failed_actions = 3
    /\ successful_actions = 0

WaitBranchCalled == call_result.fn = "wait_branch"

\* C36: for a Wait with an integer duration hint, wait_for_condition is
\* called with the hint clamped to 1..10 seconds: 1 below 1, 10 above 10,
\* the hint itself in between; a missing duration hint gives 3 seconds and
\* a missing condition hint gives 'page_load'.
C36_DurationClamped ==
    WaitBranchCalled
        => /\ (call_args.dur_kind = "int")
                => /\ call_result.args.kind = "call"
                   /\ call_result.args.duration \in 1..10
                   /\ call_result.args.duration =
                        CASE call_args.dur_val < 1 -> 1
                          [] call_args.dur_val > 10 -> 10
                          [] OTHER -> call_args.dur_val
           /\ (call_args.dur_kind = "missing")
                => /\ call_result.args.kind = "call"
                   /\ call_result.args.duration = 3
           /\ (call_args.dur_kind # "bad" /\ call_args.cond = "missing")
                => call_result.args.condition = "page_load"
           /\ (call_args.dur_kind # "bad" /\ call_args.cond # "missing")
                => call_result.args.condition = call_args.cond

\* C36 witness: a hint of 12 seconds without a condition waits 10 seconds
\* for the page load
C36_Witness ==
    /\ WaitBranchCalled
    /\ call_args.dur_kind = "int"
    /\ call_args.dur_val = 12
    /\ call_args.cond = "missing"
    /\ call_result.args = [kind |-> "call", duration |-> 10,
                           condition |-> "page_load"]

\* C37: when run_enhanced_test has returned, self.driver is None; a later
\* call on the same object, made without setup_selenium, fails its three
\* navigation attempts and returns the navigation-failure text: it builds no
\* turn, makes no oracle request, dispatches no action, executes no script
\* and quits no browser.
C37_SecondRunOnlyNavigates ==
    [][/\ (pc' = "returned") => ~driver'
       /\ (runs' >= 2)
            => /\ ~driver'
               /\ pc' \in {"navigate", "returned"}
               /\ generate_calls' = 0
               /\ sent' = <<>>
               /\ messages' = <<>>
               /\ iteration' = 0
               /\ UNCHANGED selfCounters
       /\ (runs >= 2 /\ pc = "navigate" /\ pc' = "returned")
            => /\ attempt = NavAttempts - 1
               /\ report' = Report("NAV_FAILED", 0, "none")
               /\ quit_calls' = 0
      ]_vars

\* C37 witness: a first session ran a script and returned; the second call
\* on the object returned the navigation failure
C37_Witness ==
    /\ runs = 2
    /\ pc = "returned"
    /\ report.status = "NAV_FAILED"
    /\ ~acquired
    /\ ~driver
    /\ executions >= 1
    /\ generate_calls = 0

====
